---- MODULE Spec2Model ----
(***************************************************************************)
(* Model of scripts/fix-web-export.py: a directory walker that rewrites    *)
(* <script src="URL" defer> tags of every *.html file under a root         *)
(* directory to <script type="module" src="URL" defer>, in place.          *)
(*                                                                         *)
(* Text (file contents, file names, paths, output lines) is a sequence of  *)
(* one-character strings, so that the regular expression, str.endswith,    *)
(* os.path.join and the f-strings are computed character by character.     *)
(* A file holds the characters on disk; the program reads and writes it in *)
(* text mode, which translates line endings.                               *)
(***************************************************************************)
EXTENDS Integers, Sequences, FiniteSets, TLC

VARIABLES
    argv,       \* sys.argv of the invocation
    tree,       \* the directories: path -> names of its files and directories
    linesep,    \* os.linesep of the platform
    fs,         \* the file system: path -> content of every regular file
    pc,         \* position of the run in main / fix_html
    dist_dir,   \* main: dist_dir
    pending,    \* os.walk: directories still to be listed, next first
    root,       \* main: root of the current os.walk triple
    files,      \* main: names of the current triple not yet iterated
    path,       \* fix_html: path
    content,    \* fix_html: content
    new,        \* fix_html: new
    ret,        \* value returned by the last call of fix_html
    count,      \* main: count
    handles,    \* open file objects: records [path, mode]
    stdout,     \* lines printed to sys.stdout
    stderr,     \* lines printed to sys.stderr
    exitcode,   \* exit status of the process; -1 while it runs
    nreads,     \* path -> number of times the run opened it for reading
    nwrites,    \* path -> number of times the run opened it for writing
    fs0         \* the file system when the run started

vars == <<argv, tree, linesep, fs, pc, dist_dir, pending, root, files, path,
          content, new, ret, count, handles, stdout, stderr, exitcode,
          nreads, nwrites, fs0>>

(***************************************************************************)
(* Bounds of the model.                                                    *)
(***************************************************************************)
\* longest input of the substitution, in pieces of Pieces
MaxPieces == 4
\* longest generated content of dist/index.html, in pieces of FilePieces
MaxFilePieces == 2

(***************************************************************************)
(* Text literals of the program.                                           *)
(***************************************************************************)
Quote == "\""

\* r'<script src="' : the pattern up to the group
ScriptSrcOpen ==
    <<"<","s","c","r","i","p","t"," ","s","r","c","=","\"">>

\* r'" defer>' : the pattern after the group
DeferClose == <<"\""," ","d","e","f","e","r",">">>

\* r'<script type="module" src="' : the template up to \1
ReplHead ==
    <<"<","s","c","r","i","p","t"," ","t","y","p","e","=","\"",
      "m","o","d","u","l","e","\""," ","s","r","c","=","\"">>

\* r'" defer>' : the template after \1
ReplTail == <<"\""," ","d","e","f","e","r",">">>

LF == "\n"
CR == "\r"

DotHtml == <<".","h","t","m","l">>

DefaultDir == <<"d","i","s","t">>

(***************************************************************************)
(* re.sub(r'<script src="([^"]+)" defer>',                                 *)
(*        r'<script type="module" src="\1" defer>', content)               *)
(***************************************************************************)
\* the literal lit matches s at position pos
LitAt(s, pos, lit) ==
    /\ pos + Len(lit) - 1 <= Len(s)
    /\ \A i \in 1..Len(lit) : s[pos + i - 1] = lit[i]

\* GroupLens with the group written ([^"]*): an empty URL matches too
GroupLens_AllowEmpty(s, pos) ==
    LET g == pos + Len(ScriptSrcOpen)
    IN  { k \in 0..(Len(s) - g + 1) :
            /\ \A i \in g..(g + k - 1) : s[i] # Quote
            /\ LitAt(s, g + k, DeferClose) }

\* the lengths k of group 1 with which the whole pattern matches at pos:
\* k >= 1 characters other than '"', then '" defer>'
GroupLens(s, pos) ==
    LET g == pos + Len(ScriptSrcOpen)
    IN  { k \in 1..(Len(s) - g + 1) :
            /\ \A i \in g..(g + k - 1) : s[i] # Quote
            /\ LitAt(s, g + k, DeferClose) }

\* the pattern matches at pos
MatchAt(s, pos) ==
    /\ LitAt(s, pos, ScriptSrcOpen)
    /\ GroupLens(s, pos) # {}

\* [^"]+ is greedy: the longest group with which the pattern matches
GroupLen(s, pos) ==
    CHOOSE k \in GroupLens(s, pos) : \A j \in GroupLens(s, pos) : j <= k

\* group 1 of the match at pos
Group1(s, pos) ==
    LET g == pos + Len(ScriptSrcOpen)
    IN  SubSeq(s, g, g + GroupLen(s, pos) - 1)

\* first position after the match at pos
MatchEnd(s, pos) ==
    pos + Len(ScriptSrcOpen) + GroupLen(s, pos) + Len(DeferClose)

\* the expansion of the template for one match
Expand(url) == ReplHead \o url \o ReplTail

\* re.search from pos: the positions at or after pos where the pattern matches
MatchesFrom(s, pos) == { p \in pos..Len(s) : MatchAt(s, p) }

\* the only element of a set of one element
TheOne(S) == CHOOSE x \in S : TRUE

\* the leftmost of a set of positions
Leftmost(S) == CHOOSE q \in S : \A r \in S : q <= r

\* SubFrom with count=1: only the first match is replaced
SubFrom_FirstOnly(s, pos) ==
    IF MatchesFrom(s, pos) = {} THEN SubSeq(s, pos, Len(s))
    ELSE TheOne({ SubSeq(s, pos, p - 1) \o Expand(Group1(s, p))
                      \o SubSeq(s, MatchEnd(s, p), Len(s)) :
                  p \in {Leftmost(MatchesFrom(s, pos))} })

\* re.sub scanning from pos: the leftmost match at or after pos is replaced
\* by the expanded template, the text before it is copied, and the scan
\* goes on after the match, so that no two matches overlap. (p is bound by
\* a set constructor so that the position is computed once.)
RECURSIVE SubFrom(_, _)
SubFrom(s, pos) ==
    IF MatchesFrom(s, pos) = {} THEN SubSeq(s, pos, Len(s))
    ELSE TheOne({ SubSeq(s, pos, p - 1) \o Expand(Group1(s, p))
                      \o SubFrom(s, MatchEnd(s, p)) :
                  p \in {Leftmost(MatchesFrom(s, pos))} })

ReSub(s) == SubFrom(s, 1)

(***************************************************************************)
(* Text mode of open(): f.read() turns "\r\n" and "\r" into "\n", and      *)
(* f.write() turns "\n" into os.linesep.                                    *)
(***************************************************************************)
\* positions at or after pos where b holds ch
Places(b, pos, ch) == { i \in pos..Len(b) : b[i] = ch }

RECURSIVE ReadFrom(_, _)
ReadFrom(b, pos) ==
    IF Places(b, pos, CR) = {} THEN SubSeq(b, pos, Len(b))
    ELSE TheOne({ SubSeq(b, pos, i - 1) \o <<LF>>
                      \o ReadFrom(b, IF i < Len(b) /\ b[i + 1] = LF
                                     THEN i + 2 ELSE i + 1) :
                  i \in {Leftmost(Places(b, pos, CR))} })

\* the text f.read() returns for a file that holds b
ReadText(b) == ReadFrom(b, 1)

RECURSIVE WriteFrom(_, _, _)
WriteFrom(t, pos, sep) ==
    IF Places(t, pos, LF) = {} THEN SubSeq(t, pos, Len(t))
    ELSE TheOne({ SubSeq(t, pos, i - 1) \o sep \o WriteFrom(t, i + 1, sep) :
                  i \in {Leftmost(Places(t, pos, LF))} })

\* the characters f.write(t) sends to the file
WriteText(t, sep) == WriteFrom(t, 1, sep)

(***************************************************************************)
(* Inputs: texts built from the pieces the pattern is made of.             *)
(***************************************************************************)
TagA == ScriptSrcOpen \o <<"a">> \o DeferClose
TagB == ScriptSrcOpen \o <<"b">> \o DeferClose

\* '<script src=' without the opening quote: may stand inside a URL
ScriptSrcBare == <<"<","s","c","r","i","p","t"," ","s","r","c","=">>

Pieces ==
    { TagA, TagB, ScriptSrcOpen, ScriptSrcBare, DeferClose, ReplHead,
      <<"a">>, <<"\"">> }

RECURSIVE Texts(_)
Texts(n) ==
    IF n = 0 THEN { <<>> }
    ELSE LET shorter == Texts(n - 1)
         IN  shorter \cup { t \o p : t \in shorter, p \in Pieces }

PatchInputs == Texts(MaxPieces)

\* a text variable that holds nothing yet
Idle == <<>>

(***************************************************************************)
(* The directory tree the run is started in, and the texts of its names.   *)
(***************************************************************************)
DirDist ==
    <<"d","i","s","t">>

DirOut ==
    <<"o","u","t">>

NameAssets ==
    <<"a","s","s","e","t","s">>

NameLegacy ==
    <<"l","e","g","a","c","y">>

NameIndexHtml ==
    <<"i","n","d","e","x",".","h","t","m","l">>

NameAppJs ==
    <<"a","p","p",".","j","s">>

NamePageHtml ==
    <<"p","a","g","e",".","h","t","m","l">>

NameOldHtml ==
    <<"o","l","d",".","h","t","m","l">>

NameAboutUpper ==
    <<"a","b","o","u","t",".","H","T","M","L">>

NameNotesHtm ==
    <<"n","o","t","e","s",".","h","t","m">>

ProgName ==
    <<"f","i","x","-","w","e","b","-","e","x","p","o","r","t",".","p","y">>

Slash ==
    <<"/">>

TextFixed ==
    <<"F","i","x","e","d"," ">>

TextHtmlFilesIn ==
    <<" ","H","T","M","L"," ","f","i","l","e","s"," ","i","n"," ">>

TextErrorDir ==
    <<"E","r","r","o","r",":"," ","d","i","r","e","c","t","o","r","y"," ",
      "'">>

TextNotFound ==
    <<"'"," ","n","o","t"," ","f","o","u","n","d">>

TextTraceback ==
    <<"T","r","a","c","e","b","a","c","k"," ","(","m","o","s","t"," ","r",
      "e","c","e","n","t"," ","c","a","l","l"," ","l","a","s","t",")",":">>

SingleQuoted ==
    <<"<","s","c","r","i","p","t"," ","s","r","c","=","'","a","'"," ","d",
      "e","f","e","r",">">>

ExtraSpace ==
    <<"<","s","c","r","i","p","t"," "," ","s","r","c","=","\"","a","\"",
      " ","d","e","f","e","r",">">>

Reordered ==
    <<"<","s","c","r","i","p","t"," ","d","e","f","e","r"," ","s","r","c",
      "=","\"","a","\"",">">>

SelfClosing ==
    <<"<","s","c","r","i","p","t"," ","s","r","c","=","\"","a","\""," ",
      "d","e","f","e","r","/",">">>

\* os.path.join(a, b)
Join(a, b) ==
    IF b # <<>> /\ b[1] = "/" THEN b
    ELSE IF a = <<>> \/ a[Len(a)] = "/" THEN a \o b
    ELSE a \o Slash \o b

Lower(ch) ==
    IF ch = "H" THEN "h" ELSE IF ch = "T" THEN "t"
    ELSE IF ch = "M" THEN "m" ELSE IF ch = "L" THEN "l" ELSE ch

\* EndsWith as name.lower().endswith(suffix)
EndsWith_AnyCase(name, suffix) ==
    /\ Len(name) >= Len(suffix)
    /\ [i \in 1..Len(suffix) |->
          Lower(name[Len(name) - Len(suffix) + i])] = suffix

\* name.endswith(suffix)
EndsWith(name, suffix) ==
    /\ Len(name) >= Len(suffix)
    /\ SubSeq(name, Len(name) - Len(suffix) + 1, Len(name)) = suffix

DirAssets == Join(DirDist, NameAssets)
DirLegacy == Join(DirAssets, NameLegacy)

\* a working directory with dist in it: every directory, with the regular
\* files and the directories it holds
TreeDist ==
    (DirDist :> [files |-> {NameIndexHtml, NameAppJs},
                 dirs |-> {NameAssets}])
    @@ (DirAssets :> [files |-> {NamePageHtml, NameAboutUpper},
                      dirs |-> {NameLegacy}])
    @@ (DirLegacy :> [files |-> {NameOldHtml, NameNotesHtm},
                      dirs |-> {}])

\* a working directory without dist: the export was written to out
TreeOut == DirOut :> [files |-> {NameIndexHtml}, dirs |-> {}]

\* os.path.isdir(p)
IsDir(p) == p \in DOMAIN tree

\* the regular files of a tree
FilesOf(t) == UNION { { Join(d, n) : n \in t[d].files } : d \in DOMAIN t }

PathIndex == Join(DirDist, NameIndexHtml)
PathPage == Join(DirAssets, NamePageHtml)
PathOld == Join(DirLegacy, NameOldHtml)

\* the orders in which os.scandir may list a set of names
Orders(S) ==
    { s \in [1..Cardinality(S) -> S] :
        \A i, j \in 1..Cardinality(S) : s[i] = s[j] => i = j }

\* command lines: no argument, and one argument that names, in one or the
\* other working directory, a directory, a regular file or nothing
Argvs ==
    { <<ProgName>>, <<ProgName, DirAssets>>, <<ProgName, PathIndex>>,
      <<ProgName, DirOut>> }

\* the pieces of the generated contents of dist/index.html
FilePieces == { TagA, ScriptSrcOpen, DeferClose, <<"a">> }

RECURSIVE FileTexts(_)
FileTexts(n) ==
    IF n = 0 THEN { <<>> }
    ELSE LET shorter == FileTexts(n - 1)
         IN  shorter \cup { t \o p : t \in shorter, p \in FilePieces }

\* contents of dist/index.html
FileContents ==
    FileTexts(MaxFilePieces)
    \cup { SingleQuoted, ExtraSpace, Reordered, SelfClosing,
           ReplHead \o <<"a">> \o ReplTail,
           TagA \o <<"a">> \o TagB \o <<"a">>,
           ScriptSrcOpen \o ScriptSrcBare \o DeferClose \o DeferClose }

\* contents of dist/index.html with line endings
LineContents ==
    { TagA \o <<CR, LF>> \o TagB \o <<CR, LF>>, TagA \o <<LF>>,
      TagA \o <<CR>>, SingleQuoted \o <<CR, LF>>,
      ScriptSrcOpen \o <<"a", CR, LF, "b">> \o DeferClose }

\* os.linesep: POSIX, Windows
Lineseps == { <<LF>>, <<CR, LF>> }

\* contents of dist/assets/page.html
PageContents == { TagB, SingleQuoted }

\* contents of dist/assets/legacy/old.html
OldContents == { TagA \o TagB, Reordered }

(***************************************************************************)
(* str(count) and the two lines the program prints.                        *)
(***************************************************************************)
Digit(d) == <<"0","1","2","3","4","5","6","7","8","9">>[d + 1]

RECURSIVE Str(_)
Str(n) == IF n < 10 THEN <<Digit(n)>> ELSE Str(n \div 10) \o <<Digit(n % 10)>>

\* f"Fixed {count} HTML files in {dist_dir}"
FixedLine(n, d) == TextFixed \o Str(n) \o TextHtmlFilesIn \o d

\* f"Error: directory '{dist_dir}' not found"
ErrorLine(d) == TextErrorDir \o d \o TextNotFound

(***************************************************************************)
(* The run.                                                                *)
(***************************************************************************)
Init ==
    /\ \E t \in {TreeDist, TreeOut}, a \in Argvs, sep \in Lineseps,
          c \in FileContents \cup LineContents,
          g \in PageContents, h \in OldContents :
           \* the contents of index.html vary in the runs over dist that
           \* find page.html without a tag and old.html with two, and the
           \* platform varies where index.html has line endings; the
           \* working directory, the command line and the contents of the
           \* other two files vary for one index.html
           /\ \/ /\ t = TreeDist /\ a = <<ProgName>>
                 /\ g = SingleQuoted /\ h = TagA \o TagB
                 /\ \/ c \in FileContents /\ sep = <<LF>>
                    \/ c \in LineContents
              \/ c = TagA /\ sep = <<LF>>
           /\ tree = t
           /\ argv = a
           /\ linesep = sep
           /\ fs = [p \in FilesOf(t) |->
                     IF p = PathIndex THEN c
                     ELSE IF p = PathPage THEN g
                     ELSE IF p = PathOld THEN h
                     ELSE TagA]
    /\ fs0 = fs
    /\ pc = "start"
    /\ dist_dir = Idle /\ pending = <<>> /\ root = Idle /\ files = <<>>
    /\ path = Idle /\ content = <<>> /\ new = <<>> /\ ret = FALSE
    /\ count = 0 /\ handles = {}
    /\ stdout = <<>> /\ stderr = <<>> /\ exitcode = -1
    /\ nreads = [p \in DOMAIN fs |-> 0]
    /\ nwrites = [p \in DOMAIN fs |-> 0]

\* an exception nothing catches: traceback on stderr, exit status 1
Raise ==
    /\ pc' = "aborted"
    /\ stderr' = Append(stderr, TextTraceback)
    /\ exitcode' = 1
    /\ UNCHANGED stdout

\* dist_dir = sys.argv[1] if len(sys.argv) > 1 else "dist"
Main_Args ==
    /\ pc = "start"
    /\ dist_dir' = IF Len(argv) > 1 THEN argv[2] ELSE DefaultDir
    /\ pc' = "isdir"
    /\ UNCHANGED <<argv, tree, linesep, fs, pending, root, files, path,
                   content, new, ret, count, handles, stdout, stderr,
                   exitcode, nreads, nwrites, fs0>>

\* Main_NotDir without sys.exit(1): the run goes on to the walk
Main_NotDir_NoExit ==
    /\ pc = "isdir"
    /\ ~IsDir(dist_dir)
    /\ stderr' = Append(stderr, ErrorLine(dist_dir))
    /\ pc' = "walk"
    /\ UNCHANGED <<argv, tree, linesep, fs, dist_dir, pending, root, files,
                   path, content, new, ret, count, handles, stdout, exitcode,
                   nreads, nwrites, fs0>>

\* if not os.path.isdir(dist_dir): print(..., file=sys.stderr); sys.exit(1)
Main_NotDir ==
    /\ pc = "isdir"
    /\ ~IsDir(dist_dir)
    /\ stderr' = Append(stderr, ErrorLine(dist_dir))
    /\ exitcode' = 1
    /\ pc' = "exited"
    /\ UNCHANGED <<argv, tree, linesep, fs, dist_dir, pending, root, files,
                   path, content, new, ret, count, handles, stdout, nreads,
                   nwrites, fs0>>

\* count = 0; os.walk(dist_dir) is started
Main_Walk ==
    /\ pc = "isdir"
    /\ IsDir(dist_dir)
    /\ count' = 0
    /\ pending' = <<dist_dir>>
    /\ pc' = "walk"
    /\ UNCHANGED <<argv, tree, linesep, fs, dist_dir, root, files, path,
                   content, new, ret, handles, stdout, stderr, exitcode,
                   nreads, nwrites, fs0>>

\* Walk_Next with every subdirectory queued twice
Walk_Next_Twice ==
    /\ pc = "walk"
    /\ pending # <<>>
    /\ LET top == Head(pending)
       IN  \E fl \in Orders(tree[top].files), dl \in Orders(tree[top].dirs) :
             /\ root' = top
             /\ files' = fl
             /\ pending' = [i \in 1..Len(dl) |-> Join(top, dl[i])]
                               \o [i \in 1..Len(dl) |-> Join(top, dl[i])]
                               \o Tail(pending)
    /\ pc' = "names"
    /\ UNCHANGED <<argv, tree, linesep, fs, dist_dir, path, content, new, ret,
                   count, handles, stdout, stderr, exitcode, nreads, nwrites,
                   fs0>>

\* os.walk yields the next triple: the directory is listed, its
\* subdirectories are walked next, before the directories already pending
Walk_Next ==
    /\ pc = "walk"
    /\ pending # <<>>
    /\ LET top == Head(pending)
       IN  \E fl \in Orders(tree[top].files), dl \in Orders(tree[top].dirs) :
             /\ root' = top
             /\ files' = fl
             /\ pending' = [i \in 1..Len(dl) |-> Join(top, dl[i])]
                               \o Tail(pending)
    /\ pc' = "names"
    /\ UNCHANGED <<argv, tree, linesep, fs, dist_dir, path, content, new, ret,
                   count, handles, stdout, stderr, exitcode, nreads, nwrites,
                   fs0>>

\* for name in files: the name does not end with ".html"
For_Skip ==
    /\ pc = "names"
    /\ files # <<>>
    /\ ~EndsWith(Head(files), DotHtml)
    /\ files' = Tail(files)
    /\ UNCHANGED <<argv, tree, linesep, fs, pc, dist_dir, pending, root, path,
                   content, new, ret, count, handles, stdout, stderr,
                   exitcode, nreads, nwrites, fs0>>

\* for name in files: the name ends with ".html"; fix_html(path) is called
For_Html ==
    /\ pc = "names"
    /\ files # <<>>
    /\ EndsWith(Head(files), DotHtml)
    /\ path' = Join(root, Head(files))
    /\ files' = Tail(files)
    /\ pc' = "open_r"
    /\ UNCHANGED <<argv, tree, linesep, fs, dist_dir, pending, root, content,
                   new, ret, count, handles, stdout, stderr, exitcode, nreads,
                   nwrites, fs0>>

\* the files of the triple are exhausted
For_End ==
    /\ pc = "names"
    /\ files = <<>>
    /\ pc' = "walk"
    /\ UNCHANGED <<argv, tree, linesep, fs, dist_dir, pending, root, files,
                   path, content, new, ret, count, handles, stdout, stderr,
                   exitcode, nreads, nwrites, fs0>>

\* with open(path, "r") as f
FixHtml_OpenRead ==
    /\ pc = "open_r"
    /\ handles' = handles \cup {[path |-> path, mode |-> "r"]}
    /\ nreads' = [nreads EXCEPT ![path] = @ + 1]
    /\ pc' = "read"
    /\ UNCHANGED <<argv, tree, linesep, fs, dist_dir, pending, root, files,
                   path, content, new, ret, count, stdout, stderr, exitcode,
                   nwrites, fs0>>

\* content = f.read()
FixHtml_Read ==
    /\ pc = "read"
    /\ content' = ReadText(fs[path])
    /\ pc' = "close_r"
    /\ UNCHANGED <<argv, tree, linesep, fs, dist_dir, pending, root, files,
                   path, new, ret, count, handles, stdout, stderr, exitcode,
                   nreads, nwrites, fs0>>

\* FixHtml_CloseRead without the with block: f stays open
FixHtml_CloseRead_Leak ==
    /\ pc = "close_r"
    /\ pc' = "sub"
    /\ UNCHANGED <<argv, tree, linesep, fs, dist_dir, pending, root, files,
                   path, content, new, ret, count, handles, stdout, stderr,
                   exitcode, nreads, nwrites, fs0>>

\* the with block of the read ends: f is closed
FixHtml_CloseRead ==
    /\ pc = "close_r"
    /\ handles' = handles \ {[path |-> path, mode |-> "r"]}
    /\ pc' = "sub"
    /\ UNCHANGED <<argv, tree, linesep, fs, dist_dir, pending, root, files,
                   path, content, new, ret, count, stdout, stderr, exitcode,
                   nreads, nwrites, fs0>>

\* new = re.sub(...)
FixHtml_Sub ==
    /\ pc = "sub"
    /\ new' = ReSub(content)
    /\ pc' = "cmp"
    /\ UNCHANGED <<argv, tree, linesep, fs, dist_dir, pending, root, files,
                   path, content, ret, count, handles, stdout, stderr,
                   exitcode, nreads, nwrites, fs0>>

\* new == content: return False
FixHtml_Same ==
    /\ pc = "cmp"
    /\ new = content
    /\ ret' = FALSE
    /\ pc' = "returned"
    /\ UNCHANGED <<argv, tree, linesep, fs, dist_dir, pending, root, files,
                   path, content, new, count, handles, stdout, stderr,
                   exitcode, nreads, nwrites, fs0>>

\* new != content: with open(path, "w") as f; opening truncates the file
FixHtml_OpenWrite ==
    /\ pc = "cmp"
    /\ new # content
    /\ handles' = handles \cup {[path |-> path, mode |-> "w"]}
    /\ fs' = [fs EXCEPT ![path] = <<>>]
    /\ nwrites' = [nwrites EXCEPT ![path] = @ + 1]
    /\ pc' = "write"
    /\ UNCHANGED <<argv, tree, linesep, dist_dir, pending, root, files, path,
                   content, new, ret, count, stdout, stderr, exitcode, nreads,
                   fs0>>

\* f.write(new): the file object buffers, so any prefix of what is written
\* may have reached the file when write returns
FixHtml_Write ==
    /\ pc = "write"
    /\ \E k \in 0..Len(WriteText(new, linesep)) :
           fs' = [fs EXCEPT ![path] = SubSeq(WriteText(new, linesep), 1, k)]
    /\ pc' = "close_w"
    /\ UNCHANGED <<argv, tree, linesep, dist_dir, pending, root, files, path,
                   content, new, ret, count, handles, stdout, stderr,
                   exitcode, nreads, nwrites, fs0>>

\* FixHtml_CloseWrite that closes without flushing the buffer
FixHtml_CloseWrite_NoFlush ==
    /\ pc = "close_w"
    /\ handles' = handles \ {[path |-> path, mode |-> "w"]}
    /\ pc' = "ret_true"
    /\ UNCHANGED <<argv, tree, linesep, fs, dist_dir, pending, root, files,
                   path, content, new, ret, count, stdout, stderr, exitcode,
                   nreads, nwrites, fs0>>

\* the with block of the write ends: the buffer is flushed, f is closed
FixHtml_CloseWrite ==
    /\ pc = "close_w"
    /\ fs' = [fs EXCEPT ![path] = WriteText(new, linesep)]
    /\ handles' = handles \ {[path |-> path, mode |-> "w"]}
    /\ pc' = "ret_true"
    /\ UNCHANGED <<argv, tree, linesep, dist_dir, pending, root, files, path,
                   content, new, ret, count, stdout, stderr, exitcode, nreads,
                   nwrites, fs0>>

\* return True
FixHtml_ReturnTrue ==
    /\ pc = "ret_true"
    /\ ret' = TRUE
    /\ pc' = "returned"
    /\ UNCHANGED <<argv, tree, linesep, fs, dist_dir, pending, root, files,
                   path, content, new, count, handles, stdout, stderr,
                   exitcode, nreads, nwrites, fs0>>

\* Main_Tally that counts every file fix_html was called for
Main_Tally_Always ==
    /\ pc = "returned"
    /\ count' = count + 1
    /\ pc' = "names"
    /\ UNCHANGED <<argv, tree, linesep, fs, dist_dir, pending, root, files,
                   path, content, new, ret, handles, stdout, stderr, exitcode,
                   nreads, nwrites, fs0>>

\* if fix_html(path): count += 1
Main_Tally ==
    /\ pc = "returned"
    /\ count' = IF ret THEN count + 1 ELSE count
    /\ pc' = "names"
    /\ UNCHANGED <<argv, tree, linesep, fs, dist_dir, pending, root, files,
                   path, content, new, ret, handles, stdout, stderr, exitcode,
                   nreads, nwrites, fs0>>

\* os.walk is exhausted: print(f"Fixed {count} HTML files in {dist_dir}")
Main_Print ==
    /\ pc = "walk"
    /\ pending = <<>>
    /\ stdout' = Append(stdout, FixedLine(count, dist_dir))
    /\ exitcode' = 0
    /\ pc' = "done"
    /\ UNCHANGED <<argv, tree, linesep, fs, dist_dir, pending, root, files,
                   path, content, new, ret, count, handles, stderr, nreads,
                   nwrites, fs0>>

(***************************************************************************)
(* I/O errors: open, read, write and close raise OSError (or read raises   *)
(* UnicodeDecodeError); neither fix_html nor main catches anything.        *)
(***************************************************************************)
\* open(path, "r") raises: nothing was opened
Err_OpenRead ==
    /\ pc = "open_r"
    /\ Raise
    /\ UNCHANGED <<argv, tree, linesep, fs, dist_dir, pending, root, files,
                   path, content, new, ret, count, handles, nreads, nwrites,
                   fs0>>

\* Err_Read caught and logged in main: the run goes on with the next name
Err_Read_Continue ==
    /\ pc = "read"
    /\ handles' = handles \ {[path |-> path, mode |-> "r"]}
    /\ stderr' = Append(stderr, TextTraceback)
    /\ pc' = "names"
    /\ UNCHANGED <<argv, tree, linesep, fs, dist_dir, pending, root, files,
                   path, content, new, ret, count, stdout, exitcode, nreads,
                   nwrites, fs0>>

\* f.read() raises: the with block closes f on the way out
Err_Read ==
    /\ pc = "read"
    /\ handles' = handles \ {[path |-> path, mode |-> "r"]}
    /\ Raise
    /\ UNCHANGED <<argv, tree, linesep, fs, dist_dir, pending, root, files,
                   path, content, new, ret, count, nreads, nwrites, fs0>>

\* open(path, "w") raises: the file was neither opened nor truncated
Err_OpenWrite ==
    /\ pc = "cmp"
    /\ new # content
    /\ Raise
    /\ UNCHANGED <<argv, tree, linesep, fs, dist_dir, pending, root, files,
                   path, content, new, ret, count, handles, nreads, nwrites,
                   fs0>>

\* f.write(new) raises: the with block closes f; what reached the file is
\* some prefix of what was to be written
Err_Write ==
    /\ pc = "write"
    /\ \E k \in 0..Len(WriteText(new, linesep)) :
           fs' = [fs EXCEPT ![path] = SubSeq(WriteText(new, linesep), 1, k)]
    /\ handles' = handles \ {[path |-> path, mode |-> "w"]}
    /\ Raise
    /\ UNCHANGED <<argv, tree, linesep, dist_dir, pending, root, files, path,
                   content, new, ret, count, nreads, nwrites, fs0>>

\* the flush at the end of the with block raises: f is closed and the file
\* keeps the prefix of new that had reached it
Err_CloseWrite ==
    /\ pc = "close_w"
    /\ handles' = handles \ {[path |-> path, mode |-> "w"]}
    /\ Raise
    /\ UNCHANGED <<argv, tree, linesep, fs, dist_dir, pending, root, files,
                   path, content, new, ret, count, nreads, nwrites, fs0>>

NextNoFault ==
    \/ Main_Args \/ Main_NotDir \/ Main_Walk \/ Walk_Next
    \/ For_Skip \/ For_Html \/ For_End
    \/ FixHtml_OpenRead \/ FixHtml_Read \/ FixHtml_CloseRead \/ FixHtml_Sub
    \/ FixHtml_Same \/ FixHtml_OpenWrite \/ FixHtml_Write
    \/ FixHtml_CloseWrite \/ FixHtml_ReturnTrue
    \/ Main_Tally \/ Main_Print

Fault ==
    \/ Err_OpenRead \/ Err_Read \/ Err_OpenWrite \/ Err_Write
    \/ Err_CloseWrite

Next == NextNoFault \/ Fault

Spec == Init /\ [][Next]_vars

(***************************************************************************)
(* The substitution alone: applied to an input, then to its own output.    *)
(***************************************************************************)
InitPatch ==
    /\ content \in PatchInputs
    /\ new = content
    /\ pc = "patch0"
    /\ argv = <<>> /\ tree = <<>> /\ linesep = <<LF>>
    /\ fs = <<>> /\ fs0 = <<>> /\ dist_dir = Idle
    /\ pending = <<>> /\ root = Idle /\ files = <<>> /\ path = Idle
    /\ ret = FALSE /\ count = 0 /\ handles = {}
    /\ stdout = <<>> /\ stderr = <<>> /\ exitcode = -1
    /\ nreads = <<>> /\ nwrites = <<>>

\* first pass: new = re.sub(..., content)
PatchOnce ==
    /\ pc = "patch0"
    /\ new' = ReSub(content)
    /\ pc' = "patch1"
    /\ UNCHANGED <<argv, tree, linesep, fs, dist_dir, pending, root, files,
                   path, content, ret, count, handles, stdout, stderr,
                   exitcode, nreads, nwrites, fs0>>

\* second pass: the output of the first pass is the content read
PatchAgain ==
    /\ pc = "patch1"
    /\ content' = new
    /\ new' = ReSub(new)
    /\ pc' = "patch2"
    /\ UNCHANGED <<argv, tree, linesep, fs, dist_dir, pending, root, files,
                   path, ret, count, handles, stdout, stderr, exitcode,
                   nreads, nwrites, fs0>>

NextPatch == PatchOnce \/ PatchAgain

SpecPatch == InitPatch /\ [][NextPatch]_vars

\* C1: the substitution is idempotent: a second pass over the output of a
\* first pass changes nothing (patch(patch(content)) = patch(content)).
C1_Idempotent == pc = "patch2" => new = content

(***************************************************************************)
(* Vocabulary of the properties: the tag as the pattern describes it, and   *)
(* the files a run is about.                                               *)
(***************************************************************************)
\* t is one tag <script src="URL" defer>, URL one or more characters other
\* than '"'
IsTag(t) ==
    LET n == Len(t)
        o == Len(ScriptSrcOpen)
        d == Len(DeferClose)
    IN  /\ n > o + d
        /\ SubSeq(t, 1, o) = ScriptSrcOpen
        /\ SubSeq(t, n - d + 1, n) = DeferClose
        /\ \A i \in (o + 1)..(n - d) : t[i] # Quote

\* the occurrences of the tag in c, overlapping ones included: <<first, last>>
Occurrences(c) ==
    { o \in { i \in 1..Len(c) : c[i] = "<" }
              \X { j \in 1..Len(c) : c[j] = ">" } :
        o[1] <= o[2] /\ IsTag(SubSeq(c, o[1], o[2])) }

HasTag(c) == Occurrences(c) # {}

\* the occurrences a left-to-right pass takes: the leftmost one at or after
\* from, then those after its end
RECURSIVE Taken(_, _)
Taken(c, from) ==
    LET cand == { o \in Occurrences(c) : o[1] >= from }
    IN  IF cand = {} THEN <<>>
        ELSE LET o == CHOOSE x \in cand : \A y \in cand : x[1] <= y[1]
             IN  <<o>> \o Taken(c, o[2] + 1)

\* what one rewritten tag gains in length: type="module" and a space
Gain == Len(ReplHead) - Len(ScriptSrcOpen)

\* out is c with every taken tag rewritten, URL kept, and nothing else changed
Rewritten(c, out) ==
    LET m == Taken(c, 1)
        n == Len(m)
        Before(i) == Cardinality({ k \in 1..n : m[k][2] < i })
        Inside(i) == \E k \in 1..n : m[k][1] <= i /\ i <= m[k][2]
    IN  /\ Len(out) = Len(c) + n * Gain
        /\ \A k \in 1..n :
             SubSeq(out, m[k][1] + (k - 1) * Gain, m[k][2] + k * Gain)
               = ReplHead
                   \o SubSeq(c, m[k][1] + Len(ScriptSrcOpen),
                             m[k][2] - Len(DeferClose))
                   \o DeferClose
        /\ \A i \in 1..Len(c) :
             ~Inside(i) => out[i + Before(i) * Gain] = c[i]

\* path p lies under directory d, at any depth
Under(d, p) ==
    /\ Len(p) > Len(d) + 1
    /\ SubSeq(p, 1, Len(d)) = d
    /\ p[Len(d) + 1] = "/"

\* the name of p ends with the five characters .html, case and all
IsHtml(p) ==
    /\ Len(p) >= Len(DotHtml)
    /\ \A i \in 1..Len(DotHtml) : p[Len(p) - Len(DotHtml) + i] = DotHtml[i]

\* the directory the command line names
RootArg == IF Len(argv) > 1 THEN argv[2] ELSE DefaultDir

\* an uncaught exception has been reported
IOFailed == \E i \in 1..Len(stderr) : stderr[i] = TextTraceback

\* t is a prefix of u, and shorter
ProperPrefix(t, u) == Len(t) < Len(u) /\ t = SubSeq(u, 1, Len(t))

\* the .html files under d
HtmlUnder(d) == { p \in DOMAIN fs : Under(d, p) /\ IsHtml(p) }

\* the text of file p when the run started, and now
Text0(p) == ReadText(fs0[p])
TextNow(p) == ReadText(fs[p])

\* what a completed fix_html leaves in file p
Patched(p) == WriteText(ReSub(ReadText(fs0[p])), linesep)

\* fix_html has computed new from the content it read
Substituted == pc \in {"cmp", "write", "close_w", "ret_true", "returned"}

AlreadyModule == ReplHead \o <<"a">> \o ReplTail

(***************************************************************************)
(* Properties.                                                             *)
(***************************************************************************)
\* C2: a file whose content holds no occurrence of the tag is never opened
\* for writing, keeps its content in every state of the run, and fix_html
\* returns False for it.
C2_NoTagUntouched ==
    \A p \in DOMAIN fs :
        ~HasTag(Text0(p)) =>
            /\ nwrites[p] = 0
            /\ fs[p] = fs0[p]
            /\ [path |-> p, mode |-> "w"] \notin handles
            /\ (pc = "returned" /\ path = p) => ret = FALSE

\* C2 witness: fix_html has returned for a file that already holds the
\* rewritten tag, and so no occurrence of the pattern.
C2_Witness ==
    /\ pc = "returned"
    /\ fs0[path] = AlreadyModule
    /\ ret = FALSE

\* C3: one pass rewrites every tag it takes, keeps each URL and every
\* character outside the tags; fix_html returns True exactly when the content
\* held an occurrence, and then the file was opened for writing once and
\* holds the output as its text.
C3_AllRewritten ==
    /\ Substituted => content = Text0(path) /\ Rewritten(content, new)
    /\ pc = "returned" =>
         /\ ret <=> HasTag(Text0(path))
         /\ ret => nwrites[path] = 1 /\ TextNow(path) = new
    /\ \A p \in DOMAIN fs :
         /\ nwrites[p] <= 1
         /\ (nwrites[p] = 1
               /\ ~(p = path /\ pc \in {"write", "close_w", "aborted"}))
              => Rewritten(Text0(p), TextNow(p))

\* C3 witness: fix_html has returned True for a file with two tags of
\* different URLs and text between and after them.
C3_Witness ==
    /\ pc = "returned"
    /\ ret = TRUE
    /\ fs0[path] = TagA \o <<"a">> \o TagB \o <<"a">>
    /\ fs[path] = Expand(<<"a">>) \o <<"a">> \o Expand(<<"b">>) \o <<"a">>

\* C4: the run prints one line, after the last file, and the count in it
\* is the number of .html files under the root whose content held a tag when
\* the run started; the exit status is then 0.
C4_CountReported ==
    /\ Len(stdout) <= 1
    /\ stdout # <<>> =>
         /\ pc = "done"
         /\ handles = {}
         /\ \A p \in HtmlUnder(dist_dir) : nreads[p] = 1
    /\ pc = "done" =>
         /\ stdout =
              <<FixedLine(
                  Cardinality({ p \in HtmlUnder(dist_dir) :
                                  HasTag(Text0(p)) }),
                  dist_dir)>>
         /\ exitcode = 0

\* C4 witness: a run over dist/assets is done and has counted two files,
\* which held three tags between them.
C4_Witness ==
    /\ pc = "done"
    /\ dist_dir = DirAssets
    /\ fs0[PathPage] = TagB
    /\ fs0[PathOld] = TagA \o TagB
    /\ stdout = <<FixedLine(2, DirAssets)>>

\* C5: when the root (the argument, or dist without one) is no directory,
\* the run prints the diagnostic on stderr and exits with status 1; it opens
\* no file, changes none, and prints nothing on stdout.
C5_MissingRoot ==
    ~IsDir(RootArg) =>
        /\ pc \in {"start", "isdir", "exited"}
        /\ stdout = <<>>
        /\ fs = fs0
        /\ handles = {}
        /\ \A p \in DOMAIN fs : nreads[p] = 0 /\ nwrites[p] = 0
        /\ exitcode \in {-1, 1}
        /\ pc = "exited" <=> exitcode = 1
        /\ pc = "exited" <=> stderr = <<ErrorLine(RootArg)>>
        /\ pc # "exited" => stderr = <<>>

\* C5 witness: started without an argument where there is no dist, the run
\* has exited.
C5_Witness ==
    /\ pc = "exited"
    /\ argv = <<ProgName>>
    /\ tree = TreeOut
    /\ exitcode = 1

\* C6: a file whose name does not end with .html is never opened and never
\* changes; a finished run has read every .html file under the root, at
\* whatever depth.
C6_OnlyHtml ==
    /\ \A p \in DOMAIN fs :
         ~IsHtml(p) =>
            /\ nreads[p] = 0
            /\ nwrites[p] = 0
            /\ fs[p] = fs0[p]
            /\ \A h \in handles : h.path # p
    /\ pc = "done" => \A p \in HtmlUnder(dist_dir) : nreads[p] = 1

\* C6 witness: a run over dist is done; it has read old.html two levels
\* down, and about.HTML beside page.html still holds its tag.
C6_Witness ==
    /\ pc = "done"
    /\ dist_dir = DirDist
    /\ nreads[PathOld] = 1
    /\ fs[PathOld] # fs0[PathOld]
    /\ fs[Join(DirAssets, NameAboutUpper)] = TagA

\* C7: the run is sequential: no file is touched before the root is known
\* to be a directory; at most one file is open, and it is the file being
\* processed; when the next file is about to be opened every file opened
\* before is closed and completely rewritten; the line is printed after all.
C7_Sequential ==
    /\ Cardinality(handles) <= 1
    /\ \A h \in handles :
         /\ h.path = path
         /\ h.mode = "r" => pc \in {"read", "close_r"}
         /\ h.mode = "w" => pc \in {"write", "close_w"}
    /\ pc \in {"start", "isdir", "exited"} =>
         /\ fs = fs0
         /\ handles = {}
         /\ \A p \in DOMAIN fs : nreads[p] = 0 /\ nwrites[p] = 0
    /\ (\E p \in DOMAIN fs : nreads[p] > 0) => IsDir(dist_dir)
    /\ pc = "open_r" =>
         /\ handles = {}
         /\ \A p \in DOMAIN fs :
              nreads[p] > 0 => Rewritten(Text0(p), TextNow(p))
    /\ stdout # <<>> =>
         /\ handles = {}
         /\ \A p \in HtmlUnder(dist_dir) :
              nreads[p] = 1 /\ Rewritten(Text0(p), TextNow(p))

\* C7 witness: the next file is about to be opened after an earlier one was
\* rewritten.
C7_Witness ==
    /\ pc = "open_r"
    /\ \E p \in DOMAIN fs : nwrites[p] = 1 /\ fs[p] # fs0[p] /\ p # path

\* C8: an I/O error ends the run where it happens: nothing runs after it,
\* no file is left open, nothing is printed on stdout, the exit status is
\* not 0, the files not yet reached are as they were, and the files rewritten
\* before keep their new content.
C8_AbortOnIOError ==
    IOFailed =>
        /\ pc = "aborted"
        /\ ~ENABLED Next
        /\ stdout = <<>>
        /\ exitcode = 1
        /\ handles = {}
        /\ \A p \in DOMAIN fs \ {path} :
             /\ nreads[p] = 0 => nwrites[p] = 0 /\ fs[p] = fs0[p]
             /\ nreads[p] > 0 => Rewritten(Text0(p), TextNow(p))

\* C8 witness: the run was aborted after one file had been rewritten and
\* before another .html file under the root was read.
C8_Witness ==
    /\ pc = "aborted"
    /\ \E p \in DOMAIN fs \ {path} : nwrites[p] = 1 /\ fs[p] # fs0[p]
    /\ \E q \in HtmlUnder(dist_dir) \ {path} : nreads[q] = 0

\* C10, as claimed: in every state every .html file holds its original
\* content or its completely rewritten content.
C10_NeverPartial ==
    \A p \in DOMAIN fs :
        IsHtml(p) => fs[p] = fs0[p] \/ fs[p] = Patched(p)

\* C10, amended: every .html file holds its original or its completely
\* rewritten content, except the one file that is open for writing, or was
\* when an I/O error ended the run: that file holds a prefix of its rewritten
\* content, possibly empty. A run that ends with the line printed leaves no
\* such file.
C10_PartialOnlyInWrite ==
    /\ \A p \in DOMAIN fs :
         IsHtml(p) =>
            \/ fs[p] = fs0[p]
            \/ fs[p] = Patched(p)
            \/ /\ p = path
               /\ pc \in {"write", "close_w", "aborted"}
               /\ nwrites[p] = 1
               /\ ProperPrefix(fs[p], Patched(p))
    /\ pc = "done" =>
         \A p \in DOMAIN fs : fs[p] = fs0[p] \/ fs[p] = Patched(p)

\* C10 witness: the run was aborted by an error of the write and left the
\* file cut in the middle of its new content.
C10_Witness ==
    /\ pc = "aborted"
    /\ nwrites[path] = 1
    /\ fs[path] # <<>>
    /\ fs[path] # fs0[path]
    /\ ProperPrefix(fs[path], Patched(path))

(***************************************************************************)
(* The run without I/O errors. The program is one thread that runs until    *)
(* it exits, so a step that can be taken is taken.                         *)
(***************************************************************************)
LiveSpec == Init /\ [][NextNoFault]_vars /\ WF_vars(NextNoFault)

\* C9: without I/O errors a run over an existing root ends with the line
\* printed and exit status 0, having read every .html file under the root;
\* no file is opened for reading twice, or for writing twice.
C9_Terminates ==
    /\ [](\A p \in DOMAIN fs : nreads[p] <= 1 /\ nwrites[p] <= 1)
    /\ (pc = "start" /\ IsDir(RootArg))
         ~> (/\ pc = "done"
             /\ exitcode = 0
             /\ Len(stdout) = 1
             /\ \A p \in HtmlUnder(dist_dir) : nreads[p] = 1)

\* C9 witness: a run over dist is done after rewriting index.html while the
\* walk was in progress.
C9_Witness ==
    /\ pc = "done"
    /\ exitcode = 0
    /\ dist_dir = DirDist
    /\ nreads[PathIndex] = 1
    /\ nwrites[PathIndex] = 1
    /\ nreads[PathOld] = 1

====
